---- MODULE Spec2Model ----
(***************************************************************************)
(* NotificationClient (bioblend/galaxy/notifications/__init__.py): the     *)
(* seven request builders, the transport they delegate to, and a reference *)
(* notification service as the tests of the repository describe it.        *)
(*                                                                         *)
(* Python values are modelled as follows.                                  *)
(*   Optional[X]    [given |-> BOOLEAN, v |-> X]; None has given = FALSE   *)
(*   List[str]      a sequence of strings                                  *)
(*   Dict[str,str]  the sequence of its (key, value) pairs in insertion    *)
(*                  order, keys distinct                                   *)
(*   datetime       a number of seconds after 2023-07-01 00:00:00 (naive)  *)
(*   str            a TLA+ string                                          *)
(***************************************************************************)
EXTENDS Integers, Sequences, FiniteSets, TLC

VARIABLES
    call,           \* the call the caller is in: what it asked, what went out and came back
    prefs,          \* service: the stored notification preferences of the user
    notifications,  \* service: the notifications sent so far, in send order
    broadcasts,     \* service: the broadcasts made so far, in send order
    clock,          \* service: its clock, the stamp of the latest event
    lastUpdate,     \* the arguments of the last update the service received
    threads,        \* concurrent callers: where each is in its call and what it issued
    frames          \* the local names of the calls in progress: content, links, iterator

vars == <<call, prefs, notifications, broadcasts, clock, lastUpdate, threads, frames>>

-----------------------------------------------------------------------------
(* Bounds of the model *)

MaxIds == 2         \* longest user_ids list a caller passes
MaxLinks == 2       \* most entries of an action_links dict
MaxEvents == 3      \* most notifications and broadcasts the service holds
MaxCallers == 2     \* callers running calls at the same time

-----------------------------------------------------------------------------
(* Python values *)

Min(a, b) == IF a <= b THEN a ELSE b

None(default) == [given |-> FALSE, v |-> default]

Some(x) == [given |-> TRUE, v |-> x]

\* s[:n] of a str
Slice(s, n) == IF Len(s) = 0 THEN s ELSE SubSeq(s, 1, Min(n, Len(s)))

\* x == [] for an Optional[List]
IsEmptyList(x) == x.given /\ x.v = <<>>

\* x == y for two Optional[List]: None equals None only, a list equals an equal list
PyEq(x, y) == x.given = y.given /\ (x.given => x.v = y.v)

\* x or [] for an Optional[List]: None and [] are falsy
OrEmpty(x) == IF x.given /\ x.v # <<>> THEN x.v ELSE <<>>

\* bool(x) for an Optional[datetime], and for an Optional[Dict]
Truthy(x) == x.given

TruthyDict(x) == x.given /\ x.v # <<>>

Digits == <<"0", "1", "2", "3", "4", "5", "6", "7", "8", "9">>

\* str(d) of a naive datetime
DatetimeStr(d) == "2023-07-01 00:00:0" \o Digits[d + 1]

\* a dict entry added only when cond holds: content["k"] = v under an if
\* a client that fills in a value of its own when none was supplied
Entry_always(cond, rec) == rec

Entry(cond, rec) == IF cond THEN rec ELSE <<>>

-----------------------------------------------------------------------------
(* The transport: Client._make_url, Client._get, Client._post, Client._put. *)
(* t is what the transport does with the request: it raises t.error, or    *)
(* (t.error = NoError) returns the decoded JSON body t.body.               *)

NoError == "none"

Nothing == "nothing"

Unanswered == [error |-> "unanswered", body |-> Nothing]

BaseUrl == "https://galaxy.example/api/notifications"

\* self._make_url() and self._make_url(module_id)
Client_make_url(module_id) ==
    IF module_id.given THEN BaseUrl \o "/" \o module_id.v ELSE BaseUrl

Request(method, url, params, payload) ==
    [method |-> method, url |-> url, params |-> params, payload |-> payload]

\* one request goes out; the transport's error propagates, its body is returned
Exchange(request, t) ==
    [requests |-> <<request>>,
     raised   |-> t.error,
     value    |-> IF t.error = NoError THEN t.body ELSE Nothing]

Client_get(url, params, t) ==
    Exchange(Request("GET", IF url.given THEN url.v ELSE Client_make_url(None("")),
                     params, <<>>), t)

Client_post(url, payload, t) ==
    Exchange(Request("POST", IF url.given THEN url.v ELSE Client_make_url(None("")),
                     <<>>, payload), t)

Client_put(url, payload, t) ==
    Exchange(Request("PUT", IF url.given THEN url.v ELSE Client_make_url(None("")),
                     <<>>, payload), t)

\* s starts with the prefix p
StartsWith(s, p) == Len(s) >= Len(p) /\ SubSeq(s, 1, Len(p)) = p

\* the url up to its query string
RECURSIVE PathFrom(_, _)
PathFrom(url, i) ==
    IF i > Len(url) THEN url
    ELSE IF SubSeq(url, i, i) = "?" THEN SubSeq(url, 1, i - 1)
    ELSE PathFrom(url, i + 1)

\* the path of a request's url below the notifications base path
Endpoint(request) ==
    LET path == PathFrom(request.url, 1)
    IN  IF StartsWith(path, BaseUrl)
        THEN IF Len(path) = Len(BaseUrl) THEN "/"
             ELSE SubSeq(path, Len(BaseUrl) + 1, Len(path))
        ELSE "elsewhere"

\* the query string of a url: what follows its first "?"
QueryOf(url) ==
    LET path == PathFrom(url, 1)
    IN  IF Len(path) + 1 >= Len(url) THEN ""
        ELSE SubSeq(url, Len(path) + 2, Len(url))

\* raise ValueError(msg): nothing goes out
ValueError(msg) ==
    [requests |-> <<>>, raised |-> "ValueError: " \o msg, value |-> Nothing]

-----------------------------------------------------------------------------
(* NotificationClient: each operation as the result of calling it with      *)
(* arguments a when the transport answers t.                                *)

\* the same, asking for everything since the first representable time
get_notification_status_from_epoch(a, t) ==
    LET url == Client_make_url(None("")) \o "/status?since=" \o DatetimeStr(0)
    IN  Client_get(Some(url), <<>>, t)

get_notification_status(a, t) ==
    LET url == Client_make_url(None("")) \o "/status?since=" \o DatetimeStr(a.since)
    IN  Client_get(Some(url), <<>>, t)

\* the same, with the url left to the transport's default
get_notification_preferences_at_base(a, t) ==
    Client_get(None(""), <<>>, t)

get_notification_preferences(a, t) ==
    LET url == Client_make_url(Some("preferences"))
    IN  Client_get(Some(url), <<>>, t)

\* the same, with the two push channels crossed
update_notification_preferences_crossed(a, t) ==
    LET url == Client_make_url(Some("preferences"))
        payload ==
            [preferences |->
                [message |->
                    [enabled  |-> a.message_notifications,
                     channels |-> [push |-> a.push_notifications_new_items]],
                 new_shared_item |->
                    [enabled  |-> a.new_item_notifications,
                     channels |-> [push |-> a.push_notifications_message]]]]
    IN  Client_put(Some(url), payload, t)

update_notification_preferences(a, t) ==
    LET url == Client_make_url(Some("preferences"))
        payload ==
            [preferences |->
                [message |->
                    [enabled  |-> a.message_notifications,
                     channels |-> [push |-> a.push_notifications_message]],
                 new_shared_item |->
                    [enabled  |-> a.new_item_notifications,
                     channels |-> [push |-> a.push_notifications_new_items]]]]
    IN  Client_put(Some(url), payload, t)

\* a parameter with a default: the default when the caller does not pass it
Default(arg, d) == IF arg.passed THEN arg.v ELSE d

\* the same, with limit and offset crossed
get_user_notifications_crossed(a, t) ==
    LET limit  == Default(a.limit, Some(20))
        offset == Default(a.offset, None(0))
        params == [limit |-> offset, offset |-> limit]
    IN  Client_get(None(""), params, t)

get_user_notifications(a, t) ==
    LET limit  == Default(a.limit, Some(20))
        offset == Default(a.offset, None(0))
        params == [limit |-> limit, offset |-> offset]
    IN  Client_get(None(""), params, t)

\* the same, swallowing the transport's error
show_notification_suppressing(a, t) ==
    LET url == Client_make_url(None("")) \o "/" \o a.notification_id
        got == Client_get(Some(url), <<>>, t)
    IN  IF got.raised = NoError THEN got ELSE [got EXCEPT !.raised = NoError]

show_notification(a, t) ==
    LET url == Client_make_url(None("")) \o "/" \o a.notification_id
    IN  Client_get(Some(url), <<>>, t)

\* no validation at all
no_recipients_unchecked(a) == FALSE

\* user_ids == group_ids == role_ids == []: a chain of comparisons
no_recipients(a) ==
    /\ PyEq(a.user_ids, a.group_ids)
    /\ PyEq(a.group_ids, a.role_ids)
    /\ IsEmptyList(a.role_ids)

\* the same, with groups and roles exchanged
recipients_swapped(a) ==
    [user_ids  |-> OrEmpty(a.user_ids),
     group_ids |-> OrEmpty(a.role_ids),
     role_ids  |-> OrEmpty(a.group_ids)]

recipients(a) ==
    [user_ids  |-> OrEmpty(a.user_ids),
     group_ids |-> OrEmpty(a.group_ids),
     role_ids  |-> OrEmpty(a.role_ids)]

send_notification(a, t) ==
    IF no_recipients(a)
    THEN ValueError("The message has no recipients.")
    ELSE LET content ==
                 [source   |-> a.source,
                  variant  |-> a.variant,
                  category |-> "message",
                  content  |-> [category |-> "message",
                                subject  |-> a.subject,
                                message  |-> a.message]]
                 @@ Entry(Truthy(a.expiration_time),
                          [expiration_time |-> DatetimeStr(a.expiration_time.v)])
                 @@ Entry(Truthy(a.publication_time),
                          [publication_time |-> DatetimeStr(a.publication_time.v)])
             notification == [recipients |-> recipients(a), notification |-> content]
         IN  Client_post(None(""), notification, t)

\* a laxer test: the scheme's first letters only
not_a_url_scheme_only(v) == Slice(v, 4) # "http"

\* v[:7] != "http://" and v[:8] != "https://"
not_a_url(v) == Slice(v, 7) # "http://" /\ Slice(v, 8) # "https://"

\* the loop over action_links.items(): the links built so far, or the first
\* link that is no URL
RECURSIVE FormatLinks(_, _)
\* the same, building the sequence back to front
FormatLinksPrepending(items, links) ==
    IF items = <<>>
    THEN [invalid |-> FALSE, link |-> "", links |-> links]
    ELSE LET k == Head(items)[1]
             v == Head(items)[2]
         IN  IF not_a_url(v)
             THEN [invalid |-> TRUE, link |-> v, links |-> links]
             ELSE FormatLinks(Tail(items),
                              <<[action_name |-> k, link |-> v]>> \o links)

\* for k, v in action_links.items(): raise at the first bad link, else append
FormatLinks(items, links) ==
    IF items = <<>>
    THEN [invalid |-> FALSE, link |-> "", links |-> links]
    ELSE LET k == Head(items)[1]
             v == Head(items)[2]
         IN  IF not_a_url(v)
             THEN [invalid |-> TRUE, link |-> v, links |-> links]
             ELSE FormatLinks(Tail(items),
                              Append(links, [action_name |-> k, link |-> v]))

broadcast_notification(a, t) ==
    LET formatted == IF TruthyDict(a.action_links)
                     THEN FormatLinks(a.action_links.v, <<>>)
                     ELSE [invalid |-> FALSE, link |-> "", links |-> <<>>]
        content ==
            [category |-> "broadcast", subject |-> a.subject, message |-> a.message]
            @@ Entry(TruthyDict(a.action_links), [action_links |-> formatted.links])
        broadcast ==
            [source   |-> a.source,
             variant  |-> a.variant,
             category |-> "broadcast",
             content  |-> content]
            @@ Entry(Truthy(a.expiration_time),
                     [expiration_time |-> DatetimeStr(a.expiration_time.v)])
            @@ Entry(Truthy(a.publication_time),
                     [publication_time |-> DatetimeStr(a.publication_time.v)])
        url == Client_make_url(Some("broadcast"))
    IN  IF formatted.invalid
        THEN ValueError("Link " \o formatted.link \o " is not a valid URL.")
        ELSE Client_post(Some(url), broadcast, t)

-----------------------------------------------------------------------------
(* What callers pass *)

Users == {"u1", "u2"}

Admin == "admin"

\* the lists of at most n of the ids
IdLists(ids, n) == UNION {[1..k -> ids] : k \in 0..n}

OptionalLists(ids, n) == {None(<<>>)} \cup {Some(l) : l \in IdLists(ids, n)}

OptionalDatetimes(ds) == {None(0)} \cup {Some(d) : d \in ds}

Sources == {"notifications_test"}

Variants == {"info", "urgent"}

Subjects == {"Testing Subject"}

Messages == {"Testing Message", "test_notification_status 1"}

SendArgs ==
    [source           : Sources,
     variant          : Variants,
     subject          : Subjects,
     message          : Messages,
     publication_time : OptionalDatetimes({1}),
     expiration_time  : OptionalDatetimes({2}),
     user_ids         : OptionalLists(Users, MaxIds),
     group_ids        : OptionalLists({"g1"}, 1),
     role_ids         : OptionalLists({"r1"}, 1)]

LinkNames == {"link_1", "link_2", "x"}

Links == {"https://a", "http://b", "http://", "ftp://bad", "http:/", ""}

\* the dicts of at most n entries, as their items in insertion order
Dicts(n) ==
    {d \in UNION {[1..k -> LinkNames \X Links] : k \in 0..n} :
        \A i, j \in 1..Len(d) : i # j => d[i][1] # d[j][1]}

BroadcastArgs ==
    [source           : Sources,
     variant          : Variants,
     subject          : Subjects,
     message          : Messages,
     action_links     : {None(<<>>)} \cup {Some(d) : d \in Dicts(MaxLinks)},
     publication_time : OptionalDatetimes({1}),
     expiration_time  : OptionalDatetimes({2})]

StatusArgs == [since : 0..(MaxEvents + 1)]

NoArgs == {<<>>}

PreferencesArgs ==
    [message_notifications        : BOOLEAN,
     push_notifications_message   : BOOLEAN,
     new_item_notifications       : BOOLEAN,
     push_notifications_new_items : BOOLEAN]

Passed(x) == [passed |-> TRUE, v |-> x]

Omitted == [passed |-> FALSE, v |-> None(0)]

Limits == {Omitted, Passed(None(0))} \cup {Passed(Some(n)) : n \in 0..MaxEvents}

Offsets == {Omitted} \cup {Passed(Some(n)) : n \in 0..MaxEvents}

ListArgs == [limit : Limits, offset : Offsets]

\* the ids the service gives out, and some it never does
NotificationIds == {Digits[i + 1] : i \in 1..MaxEvents} \cup {"unknown", "preferences"}

ShowArgs == [notification_id : NotificationIds]

-----------------------------------------------------------------------------
(* The transport as an opaque collaborator: it raises one of its errors or  *)
(* returns some decoded body.                                               *)

TransportErrors == {"ConnectionError", "HTTP 500"}

OpaqueBodies == {"json_a", "json_b"}

Answers ==
    {[error |-> NoError, body |-> b] : b \in OpaqueBodies}
    \cup {[error |-> e, body |-> Nothing] : e \in TransportErrors}

Idle == [op |-> "idle"]

\* the caller's view of a finished call
Finished(op, gi, a, t, result) ==
    [op |-> op, gi |-> gi, args |-> a, answer |-> t,
     requests |-> result.requests, raised |-> result.raised, value |-> result.value]

\* what the opaque transport may do with a call that got as far as probe: it
\* is asked only if a request goes out
AnswersTo(probe) == IF probe.requests = <<>> THEN {Unanswered} ELSE Answers

GetNotificationStatus ==
    /\ call = Idle
    /\ \E a \in StatusArgs :
          \E t \in AnswersTo(get_notification_status(a, Unanswered)) :
             call' = Finished("get_notification_status", Admin, a, t,
                              get_notification_status(a, t))
    /\ UNCHANGED <<prefs, notifications, broadcasts, clock, lastUpdate, threads, frames>>

GetNotificationPreferences ==
    /\ call = Idle
    /\ \E a \in NoArgs :
          \E t \in AnswersTo(get_notification_preferences(a, Unanswered)) :
             call' = Finished("get_notification_preferences", Admin, a, t,
                              get_notification_preferences(a, t))
    /\ UNCHANGED <<prefs, notifications, broadcasts, clock, lastUpdate, threads, frames>>

UpdateNotificationPreferences ==
    /\ call = Idle
    /\ \E a \in PreferencesArgs :
          \E t \in AnswersTo(update_notification_preferences(a, Unanswered)) :
             call' = Finished("update_notification_preferences", Admin, a, t,
                              update_notification_preferences(a, t))
    /\ UNCHANGED <<prefs, notifications, broadcasts, clock, lastUpdate, threads, frames>>

GetUserNotifications ==
    /\ call = Idle
    /\ \E a \in ListArgs :
          \E t \in AnswersTo(get_user_notifications(a, Unanswered)) :
             call' = Finished("get_user_notifications", Admin, a, t,
                              get_user_notifications(a, t))
    /\ UNCHANGED <<prefs, notifications, broadcasts, clock, lastUpdate, threads, frames>>

ShowNotification ==
    /\ call = Idle
    /\ \E a \in ShowArgs :
          \E t \in AnswersTo(show_notification(a, Unanswered)) :
             call' = Finished("show_notification", Admin, a, t,
                              show_notification(a, t))
    /\ UNCHANGED <<prefs, notifications, broadcasts, clock, lastUpdate, threads, frames>>

SendNotification ==
    /\ call = Idle
    /\ \E a \in SendArgs :
          \E t \in AnswersTo(send_notification(a, Unanswered)) :
             call' = Finished("send_notification", Admin, a, t,
                              send_notification(a, t))
    /\ UNCHANGED <<prefs, notifications, broadcasts, clock, lastUpdate, threads, frames>>

BroadcastNotification ==
    /\ call = Idle
    /\ \E a \in BroadcastArgs :
          \E t \in AnswersTo(broadcast_notification(a, Unanswered)) :
             call' = Finished("broadcast_notification", Admin, a, t,
                              broadcast_notification(a, t))
    /\ UNCHANGED <<prefs, notifications, broadcasts, clock, lastUpdate, threads, frames>>

\* the caller has the result (or the exception); the client keeps nothing
Return ==
    /\ call # Idle
    /\ call' = Idle
    /\ UNCHANGED <<prefs, notifications, broadcasts, clock, lastUpdate, threads, frames>>

DefaultPreferences ==
    [message         |-> [enabled |-> TRUE, channels |-> [push |-> TRUE]],
     new_shared_item |-> [enabled |-> TRUE, channels |-> [push |-> TRUE]]]

Callers == 1..MaxCallers

\* a caller that is in no call
IdleThread == [pc |-> "idle"]

\* no call in progress: no local names
NoFrame == [content |-> <<>>, links |-> <<>>, todo |-> <<>>]

Init ==
    /\ call = Idle
    /\ threads = [c \in Callers |-> IdleThread]
    /\ frames = [c \in Callers |-> NoFrame]
    /\ prefs = DefaultPreferences
    /\ notifications = <<>>
    /\ broadcasts = <<>>
    /\ clock = 0
    /\ lastUpdate = None([message_notifications |-> TRUE, push_notifications_message |-> TRUE,
                          new_item_notifications |-> TRUE,
                          push_notifications_new_items |-> TRUE])

Next ==
    \/ GetNotificationStatus
    \/ GetNotificationPreferences
    \/ UpdateNotificationPreferences
    \/ GetUserNotifications
    \/ ShowNotification
    \/ SendNotification
    \/ BroadcastNotification
    \/ Return

Spec == Init /\ [][Next]_vars

-----------------------------------------------------------------------------
(* A reference notification service, as the tests of the repository        *)
(* describe it: it stores the preferences it is sent, keeps notifications  *)
(* and broadcasts in send order with the time it received them, and        *)
(* answers for the user whose credentials the request carries.             *)

State ==
    [prefs |-> prefs, notifications |-> notifications,
     broadcasts |-> broadcasts, clock |-> clock]

Ok(body, state) == [error |-> NoError, body |-> body, state |-> state]

NotFound == [error |-> "HTTP 404", body |-> Nothing, state |-> State]

\* the datetime a string stands for
ParseDatetime(str) == CHOOSE d \in 0..9 : DatetimeStr(d) = str

Range(f) == {f[i] : i \in DOMAIN f}

\* what a user is shown of a stored notification or broadcast
Shown(n) == [id |-> n.id, source |-> n.source, variant |-> n.variant,
             content |-> n.content]

RECURSIVE ShownTo(_, _, _)
\* the stored notifications of user u that are not older than since, as shown
ShownTo(u, stored, since) ==
    IF stored = <<>> THEN <<>>
    ELSE LET n == Head(stored)
             rest == ShownTo(u, Tail(stored), since)
         IN  IF u \in Range(n.user_ids) /\ n.time >= since
             THEN <<Shown(n)>> \o rest
             ELSE rest

RECURSIVE ShownSince(_, _)
ShownSince(stored, since) ==
    IF stored = <<>> THEN <<>>
    ELSE LET rest == ShownSince(Tail(stored), since)
         IN  IF Head(stored).time >= since THEN <<Shown(Head(stored))>> \o rest
             ELSE rest

RECURSIVE Drop(_, _)
Drop(seq, k) == IF k = 0 \/ seq = <<>> THEN seq ELSE Drop(Tail(seq), k - 1)

RECURSIVE Take(_, _)
Take(seq, k) ==
    IF k = 0 \/ seq = <<>> THEN <<>> ELSE <<Head(seq)>> \o Take(Tail(seq), k - 1)

\* GET /status?since=<timestamp>
ServeStatus(u, request) ==
    LET query == QueryOf(request.url)
        since == ParseDatetime(SubSeq(query, Len("since=") + 1, Len(query)))
        mine  == ShownTo(u, notifications, since)
    IN  Ok([total_unread_count |-> Len(mine),
            notifications      |-> mine,
            broadcasts         |-> ShownSince(broadcasts, since)], State)

\* GET /preferences
ServePreferences(u, request) == Ok([preferences |-> prefs], State)

\* PUT /preferences
ServeUpdatePreferences(u, request) ==
    Ok([preferences |-> request.payload.preferences],
       [State EXCEPT !.prefs = request.payload.preferences])

\* GET / with query {limit, offset}
ServeList(u, request) ==
    LET mine    == ShownTo(u, notifications, 0)
        skipped == IF request.params.offset.given
                   THEN Drop(mine, request.params.offset.v) ELSE mine
    IN  Ok(IF request.params.limit.given
           THEN Take(skipped, request.params.limit.v) ELSE skipped, State)

\* GET /{notification_id}
ServeShow(u, request) ==
    LET id == SubSeq(Endpoint(request), 2, Len(Endpoint(request)))
        found == {i \in 1..Len(notifications) :
                     notifications[i].id = id
                     /\ u \in Range(notifications[i].user_ids)}
    IN  IF found = {} THEN NotFound
        ELSE Ok(Shown(notifications[CHOOSE i \in found : TRUE]), State)

\* POST / with body {recipients, notification}
ServeSend(u, request) ==
    LET now == clock + 1
        n == [id       |-> Digits[now + 1],
              source   |-> request.payload.notification.source,
              variant  |-> request.payload.notification.variant,
              content  |-> request.payload.notification.content,
              user_ids |-> request.payload.recipients.user_ids,
              time     |-> now]
    IN  Ok([total_notifications_sent |->
                Cardinality(Range(request.payload.recipients.user_ids)),
            notification |-> Shown(n)],
           [State EXCEPT !.notifications = Append(notifications, n), !.clock = now])

\* POST /broadcast
ServeBroadcast(u, request) ==
    LET now == clock + 1
        b == [id      |-> Digits[now + 1],
              source  |-> request.payload.source,
              variant |-> request.payload.variant,
              content |-> request.payload.content,
              time    |-> now]
    IN  Ok([total_notifications_sent |-> 1, notification |-> Shown(b)],
           [State EXCEPT !.broadcasts = Append(broadcasts, b), !.clock = now])

\* the service's answer to a request of user u, and its state after it
Service(u, request) ==
    LET endpoint == Endpoint(request)
    IN  CASE request.method = "GET" /\ endpoint = "/status" -> ServeStatus(u, request)
          [] request.method = "GET" /\ endpoint = "/preferences" ->
                ServePreferences(u, request)
          [] request.method = "PUT" /\ endpoint = "/preferences" ->
                ServeUpdatePreferences(u, request)
          [] request.method = "GET" /\ endpoint = "/" -> ServeList(u, request)
          [] request.method = "POST" /\ endpoint = "/" -> ServeSend(u, request)
          [] request.method = "POST" /\ endpoint = "/broadcast" ->
                ServeBroadcast(u, request)
          [] request.method = "GET"
             /\ endpoint \notin {"/", "/status", "/preferences", "elsewhere"} ->
                ServeShow(u, request)
          [] OTHER -> NotFound

\* the transport in front of the service: the request is lost or refused
\* (fault), or the service answers it
Faults == {NoError, "HTTP 500"}

\* what becomes of a call of user gi that got as far as probe: the answer it
\* gets, the service after it, and whether the request reached the service
Answered(gi, probe, fault) ==
    IF probe.requests = <<>>
    THEN [answer |-> Unanswered, state |-> State, reached |-> FALSE]
    ELSE IF fault # NoError
    THEN [answer |-> [error |-> fault, body |-> Nothing], state |-> State,
          reached |-> FALSE]
    ELSE LET s == Service(gi, probe.requests[1])
         IN  [answer |-> [error |-> s.error, body |-> s.body], state |-> s.state,
              reached |-> TRUE]

\* the step of a served call
Becomes(finished, state) ==
    /\ call' = finished
    /\ prefs' = state.prefs
    /\ notifications' = state.notifications
    /\ broadcasts' = state.broadcasts
    /\ clock' = state.clock
    /\ UNCHANGED <<threads, frames>>

-----------------------------------------------------------------------------
(* The preferences of one user over the service *)

PrefsGet ==
    /\ call = Idle
    /\ \E gi \in {"u1"}, a \in NoArgs, fault \in Faults :
          LET got == Answered(gi, get_notification_preferences(a, Unanswered), fault)
          IN  Becomes(Finished("get_notification_preferences", gi, a, got.answer,
                               get_notification_preferences(a, got.answer)),
                      got.state)
    /\ UNCHANGED lastUpdate

PrefsUpdate ==
    /\ call = Idle
    /\ \E gi \in {"u1"}, a \in PreferencesArgs, fault \in Faults :
          LET got == Answered(gi, update_notification_preferences(a, Unanswered), fault)
          IN  /\ Becomes(Finished("update_notification_preferences", gi, a, got.answer,
                                  update_notification_preferences(a, got.answer)),
                         got.state)
              /\ lastUpdate' = IF got.reached THEN Some(a) ELSE lastUpdate

PrefsNext == PrefsGet \/ PrefsUpdate \/ Return

SpecPrefs == Init /\ [][PrefsNext]_vars

-----------------------------------------------------------------------------
(* The inboxes of two users over the service: what the tests do *)

InboxSendArgs ==
    [source           : Sources,
     variant          : {"info"},
     subject          : Subjects,
     message          : Messages,
     publication_time : {None(0)},
     expiration_time  : {Some(9)},
     user_ids         : {Some(<<"u1">>), Some(<<"u2">>), Some(<<"u1", "u2">>)},
     group_ids        : {None(<<>>)},
     role_ids         : {None(<<>>)}]

InboxBroadcastArgs ==
    [source           : Sources,
     variant          : {"info"},
     subject          : Subjects,
     message          : {"Testing Message"},
     action_links     : {Some(<<<<"link_1", "https://a">>, <<"link_2", "http://b">>>>)},
     publication_time : {None(0)},
     expiration_time  : {Some(9)}]

InboxListArgs ==
    [limit  : {Omitted, Passed(None(0)), Passed(Some(1)), Passed(Some(2))},
     offset : {Omitted, Passed(Some(1)), Passed(Some(3))}]

InboxSend ==
    /\ call = Idle
    /\ clock < MaxEvents
    /\ \E gi \in {"u1"}, a \in InboxSendArgs, fault \in Faults :
          LET got == Answered(gi, send_notification(a, Unanswered), fault)
          IN  Becomes(Finished("send_notification", gi, a, got.answer,
                               send_notification(a, got.answer)),
                      got.state)
    /\ UNCHANGED lastUpdate

InboxBroadcast ==
    /\ call = Idle
    /\ clock < MaxEvents
    /\ \E gi \in {"u1"}, a \in InboxBroadcastArgs, fault \in Faults :
          LET got == Answered(gi, broadcast_notification(a, Unanswered), fault)
          IN  Becomes(Finished("broadcast_notification", gi, a, got.answer,
                               broadcast_notification(a, got.answer)),
                      got.state)
    /\ UNCHANGED lastUpdate

InboxStatus ==
    /\ call = Idle
    /\ \E gi \in Users, a \in StatusArgs, fault \in Faults :
          LET got == Answered(gi, get_notification_status(a, Unanswered), fault)
          IN  Becomes(Finished("get_notification_status", gi, a, got.answer,
                               get_notification_status(a, got.answer)),
                      got.state)
    /\ UNCHANGED lastUpdate

InboxList ==
    /\ call = Idle
    /\ \E gi \in Users, a \in InboxListArgs, fault \in Faults :
          LET got == Answered(gi, get_user_notifications(a, Unanswered), fault)
          IN  Becomes(Finished("get_user_notifications", gi, a, got.answer,
                               get_user_notifications(a, got.answer)),
                      got.state)
    /\ UNCHANGED lastUpdate

InboxShow ==
    /\ call = Idle
    /\ \E gi \in Users, a \in ShowArgs, fault \in Faults :
          LET got == Answered(gi, show_notification(a, Unanswered), fault)
          IN  Becomes(Finished("show_notification", gi, a, got.answer,
                               show_notification(a, got.answer)),
                      got.state)
    /\ UNCHANGED lastUpdate

InboxNext ==
    \/ InboxSend
    \/ InboxBroadcast
    \/ InboxStatus
    \/ InboxList
    \/ InboxShow
    \/ Return

SpecInbox == Init /\ [][InboxNext]_vars

-----------------------------------------------------------------------------
(* Concurrent callers: send_notification and broadcast_notification taken  *)
(* a statement at a time, any number of callers on one client or on two    *)

\* the client objects; all a client holds is the galaxy instance it was made with
Instances == 1..2

ConcurrentSendArgs ==
    {a \in SendArgs :
        /\ a.variant = "info"
        /\ a.message = "Testing Message"
        /\ ~a.publication_time.given
        /\ ~a.expiration_time.given
        /\ a.group_ids = Some(<<>>)
        /\ a.role_ids = Some(<<>>)
        /\ a.user_ids \in {Some(<<>>), Some(<<"u1">>)}}

ConcurrentBroadcastArgs ==
    {a \in BroadcastArgs :
        /\ a.variant = "info"
        /\ ~a.publication_time.given
        /\ ~a.expiration_time.given
        /\ a.action_links \in
              {None(<<>>),
               Some(<<<<"link_1", "https://a">>, <<"link_2", "http://b">>>>),
               Some(<<<<"link_1", "https://a">>, <<"x", "ftp://bad">>>>)}}

\* local names kept as attributes of the client object
FrameOnSelf(c, self) == self

\* broadcast, content, links and the loop's iterator are local names: each
\* call has a frame of its own, whichever client it is made on
Frame(c, self) == c

\* the frame of the call that caller c is in
Local(c) == frames[Frame(c, threads[c].self)]

Assign(c, f) == frames' = [frames EXCEPT ![Frame(c, threads[c].self)] = f]

\* caller c has entered op on the client self
Started(op, self, a, pc) ==
    [pc |-> pc, self |-> self, op |-> op, args |-> a,
     requests |-> <<>>, raised |-> NoError]

At(c, op, pc) ==
    /\ threads[c].pc = pc
    /\ threads[c].op = op

Goes(c, pc) == threads' = [threads EXCEPT ![c].pc = pc]

Raises(c, failed) ==
    threads' = [threads EXCEPT ![c].pc = "done", ![c].raised = failed.raised]

Posts(c, exchange) ==
    threads' = [threads EXCEPT ![c].pc = "done", ![c].requests = exchange.requests]

\* broadcast = {}; content = {"category": "broadcast", ...}
CallBroadcast(c) ==
    /\ threads[c].pc = "idle"
    /\ \E self \in Instances, a \in ConcurrentBroadcastArgs :
          /\ threads' = [threads EXCEPT
                            ![c] = Started("broadcast_notification", self, a, "links")]
          /\ frames' = [frames EXCEPT
                           ![Frame(c, self)].content =
                               [category |-> "broadcast", subject |-> a.subject,
                                message |-> a.message]]
    /\ UNCHANGED <<call, prefs, notifications, broadcasts, clock, lastUpdate>>

\* if action_links: links = []; for k, v in action_links.items():
BeginLinks(c) ==
    /\ At(c, "broadcast_notification", "links")
    /\ IF TruthyDict(threads[c].args.action_links)
       THEN /\ Assign(c, [Local(c) EXCEPT !.links = <<>>,
                                         !.todo = threads[c].args.action_links.v])
            /\ Goes(c, "loop")
       ELSE /\ Goes(c, "payload")
            /\ UNCHANGED frames
    /\ UNCHANGED <<call, prefs, notifications, broadcasts, clock, lastUpdate>>

\* one turn of the loop, or its end: content["action_links"] = links
NextLink(c) ==
    /\ At(c, "broadcast_notification", "loop")
    /\ LET f == Local(c)
       IN  IF f.todo = <<>>
           THEN /\ Assign(c, [f EXCEPT !.content = [action_links |-> f.links] @@ f.content])
                /\ Goes(c, "payload")
           ELSE LET k == Head(f.todo)[1]
                    v == Head(f.todo)[2]
                IN  IF not_a_url(v)
                    THEN /\ Raises(c, ValueError("Link " \o v \o " is not a valid URL."))
                         /\ UNCHANGED frames
                    ELSE /\ Assign(c, [f EXCEPT
                                          !.links = Append(f.links,
                                                           [action_name |-> k, link |-> v]),
                                          !.todo = Tail(f.todo)])
                         /\ UNCHANGED threads
    /\ UNCHANGED <<call, prefs, notifications, broadcasts, clock, lastUpdate>>

\* broadcast = {..., "content": content}; the timestamps; self._post(...)
PostBroadcast(c) ==
    /\ At(c, "broadcast_notification", "payload")
    /\ LET a == threads[c].args
           broadcast ==
               [source   |-> a.source,
                variant  |-> a.variant,
                category |-> "broadcast",
                content  |-> Local(c).content]
               @@ Entry(Truthy(a.expiration_time),
                        [expiration_time |-> DatetimeStr(a.expiration_time.v)])
               @@ Entry(Truthy(a.publication_time),
                        [publication_time |-> DatetimeStr(a.publication_time.v)])
           url == Client_make_url(Some("broadcast"))
       IN  Posts(c, Client_post(Some(url), broadcast, Unanswered))
    /\ UNCHANGED <<frames, call, prefs, notifications, broadcasts, clock, lastUpdate>>

\* if user_ids == group_ids == role_ids == []: raise ValueError(...)
CallSend(c) ==
    /\ threads[c].pc = "idle"
    /\ \E self \in Instances, a \in ConcurrentSendArgs :
          threads' = [threads EXCEPT ![c] =
                         IF no_recipients(a)
                         THEN [Started("send_notification", self, a, "done") EXCEPT
                                  !.raised = send_notification(a, Unanswered).raised]
                         ELSE Started("send_notification", self, a, "payload")]
    /\ UNCHANGED <<frames, call, prefs, notifications, broadcasts, clock, lastUpdate>>

\* recipients, content, notification are built from the arguments and posted
PostSend(c) ==
    /\ At(c, "send_notification", "payload")
    /\ Posts(c, send_notification(threads[c].args, Unanswered))
    /\ UNCHANGED <<frames, call, prefs, notifications, broadcasts, clock, lastUpdate>>

\* the call is over, by return or by the exception: its frame is gone
Leave(c) ==
    /\ threads[c].pc = "done"
    /\ threads' = [threads EXCEPT ![c] = IdleThread]
    /\ Assign(c, NoFrame)
    /\ UNCHANGED <<call, prefs, notifications, broadcasts, clock, lastUpdate>>

ConcurrentNext ==
    \E c \in Callers :
        \/ CallBroadcast(c)
        \/ BeginLinks(c)
        \/ NextLink(c)
        \/ PostBroadcast(c)
        \/ CallSend(c)
        \/ PostSend(c)
        \/ Leave(c)

SpecConcurrent == Init /\ [][ConcurrentNext]_vars

-----------------------------------------------------------------------------
(* Vocabulary of the properties *)

\* the call ended with a client-side invalid-argument error
InvalidArgument == StartsWith(call.raised, "ValueError: ")

NoRecipientsMessage == "ValueError: The message has no recipients."

\* a list argument as it must appear in the payload: itself, or [] when omitted
Mirror(x) == IF x.given THEN x.v ELSE <<>>

NonEmpty(x) == x.given /\ Len(x.v) > 0

IsUrl(link) == StartsWith(link, "http://") \/ StartsWith(link, "https://")

Sending == call.op = "send_notification"

Broadcasting == call.op = "broadcast_notification"

-----------------------------------------------------------------------------
(* C1: no send_notification call posts an empty recipient set: whenever    *)
(* none of user_ids, group_ids, role_ids is a non-empty list (each omitted, *)
(* empty or non-empty) the call ends with an invalid-argument error and    *)
(* without a request, so no POST carries recipients that are all empty.    *)
C1_NoPostWithoutRecipients ==
    Sending =>
        /\ (~NonEmpty(call.args.user_ids) /\ ~NonEmpty(call.args.group_ids)
            /\ ~NonEmpty(call.args.role_ids))
           => (InvalidArgument /\ call.requests = <<>>)
        /\ \A i \in 1..Len(call.requests) :
              LET r == call.requests[i].payload.recipients
              IN  ~(r.user_ids = <<>> /\ r.group_ids = <<>> /\ r.role_ids = <<>>)

(* C2: send_notification with user_ids=[], group_ids=[] and role_ids=[]    *)
(* all passed ends with the invalid-argument error 'The message has no     *)
(* recipients.' and issues no request, whatever the other arguments.       *)
C2_EmptyListsRejected ==
    (Sending /\ IsEmptyList(call.args.user_ids) /\ IsEmptyList(call.args.group_ids)
     /\ IsEmptyList(call.args.role_ids))
    => (call.raised = NoRecipientsMessage /\ call.requests = <<>>
        /\ call.answer = Unanswered)

C2_Witness ==
    /\ Sending
    /\ IsEmptyList(call.args.user_ids) /\ IsEmptyList(call.args.group_ids)
    /\ IsEmptyList(call.args.role_ids)
    /\ call.args.expiration_time.given
    /\ call.raised = NoRecipientsMessage

(* C3: send_notification with at least one non-empty recipient list issues *)
(* exactly one POST to the notifications base path whose recipients have   *)
(* user_ids, group_ids and role_ids equal to the three input lists, in     *)
(* order, an omitted list being the empty list.                            *)
C3_OnePostMirroringRecipients ==
    (Sending /\ (NonEmpty(call.args.user_ids) \/ NonEmpty(call.args.group_ids)
                 \/ NonEmpty(call.args.role_ids)))
    => /\ Len(call.requests) = 1
       /\ call.requests[1].method = "POST"
       /\ call.requests[1].url = BaseUrl
       /\ call.requests[1].payload.recipients.user_ids = Mirror(call.args.user_ids)
       /\ call.requests[1].payload.recipients.group_ids = Mirror(call.args.group_ids)
       /\ call.requests[1].payload.recipients.role_ids = Mirror(call.args.role_ids)

C3_Witness ==
    /\ Sending
    /\ call.args.user_ids = Some(<<"u2", "u1">>)
    /\ ~call.args.group_ids.given
    /\ call.args.role_ids = Some(<<"r1">>)
    /\ Len(call.requests) = 1
    /\ call.requests[1].payload.recipients =
          [user_ids |-> <<"u2", "u1">>, group_ids |-> <<>>, role_ids |-> <<"r1">>]

(* C4: broadcast_notification with action_links holding at least one link  *)
(* that starts neither with 'http://' nor with 'https://' ends with an     *)
(* invalid-argument error and issues no request, wherever the link stands. *)
C4_InvalidLinkRejected ==
    (Broadcasting /\ call.args.action_links.given
     /\ \E i \in 1..Len(call.args.action_links.v) :
           ~IsUrl(call.args.action_links.v[i][2]))
    => (InvalidArgument /\ call.requests = <<>> /\ call.answer = Unanswered)

C4_Witness ==
    /\ Broadcasting
    /\ call.args.action_links = Some(<<<<"link_1", "https://a">>, <<"x", "ftp://bad">>>>)
    /\ call.raised = "ValueError: Link ftp://bad is not a valid URL."
    /\ call.requests = <<>>

(* C5: broadcast_notification with a non-empty action_links whose links    *)
(* all start with 'http://' or 'https://' raises no invalid-argument error *)
(* and issues exactly one POST to /broadcast whose content.action_links    *)
(* has one {action_name, link} entry per pair, in insertion order.         *)
C5_ValidLinksPostedInOrder ==
    (Broadcasting /\ NonEmpty(call.args.action_links)
     /\ \A i \in 1..Len(call.args.action_links.v) :
           IsUrl(call.args.action_links.v[i][2]))
    => /\ ~InvalidArgument
       /\ Len(call.requests) = 1
       /\ call.requests[1].method = "POST"
       /\ Endpoint(call.requests[1]) = "/broadcast"
       /\ LET sent == call.requests[1].payload.content.action_links
              given == call.args.action_links.v
          IN  /\ Len(sent) = Len(given)
              /\ \A i \in 1..Len(given) :
                    sent[i] = [action_name |-> given[i][1], link |-> given[i][2]]

C5_Witness ==
    /\ Broadcasting
    /\ call.args.action_links = Some(<<<<"link_1", "https://a">>, <<"link_2", "http://b">>>>)
    /\ Len(call.requests) = 1
    /\ call.requests[1].payload.content.action_links =
          <<[action_name |-> "link_1", link |-> "https://a"],
            [action_name |-> "link_2", link |-> "http://b"]>>

\* the body {preferences: {...}} the four booleans stand for
PreferencesOf(a, b, c, d) ==
    [preferences |->
        [message         |-> [enabled |-> a, channels |-> [push |-> b]],
         new_shared_item |-> [enabled |-> c, channels |-> [push |-> d]]]]

(* C6: update_notification_preferences(a, b, c, d) issues a PUT to         *)
(* /preferences with body {preferences: {message: {enabled: a, channels:   *)
(* {push: b}}, new_shared_item: {enabled: c, channels: {push: d}}}}, and   *)
(* over a service that stores the body it receives a following             *)
(* get_notification_preferences() returns these four fields, each in its   *)
(* own place.                                                              *)
C6_PreferencesRoundTrip ==
    /\ call.op = "update_notification_preferences"
       => /\ Len(call.requests) = 1
          /\ call.requests[1].method = "PUT"
          /\ Endpoint(call.requests[1]) = "/preferences"
          /\ call.requests[1].payload =
                PreferencesOf(call.args.message_notifications,
                              call.args.push_notifications_message,
                              call.args.new_item_notifications,
                              call.args.push_notifications_new_items)
    /\ (call.op = "get_notification_preferences" /\ call.raised = NoError
        /\ lastUpdate.given)
       => /\ call.value.preferences.message.enabled =
                lastUpdate.v.message_notifications
          /\ call.value.preferences.message.channels.push =
                lastUpdate.v.push_notifications_message
          /\ call.value.preferences.new_shared_item.enabled =
                lastUpdate.v.new_item_notifications
          /\ call.value.preferences.new_shared_item.channels.push =
                lastUpdate.v.push_notifications_new_items

C6_Witness ==
    /\ call.op = "get_notification_preferences"
    /\ call.raised = NoError
    /\ lastUpdate = Some([message_notifications |-> FALSE,
                          push_notifications_message |-> TRUE,
                          new_item_notifications |-> TRUE,
                          push_notifications_new_items |-> FALSE])
    /\ call.value = PreferencesOf(FALSE, TRUE, TRUE, FALSE)

\* the notifications the service holds for user u, in send order, as shown
InboxOf(u) ==
    LET mine == SelectSeq(notifications, LAMBDA n : \E i \in 1..Len(n.user_ids) :
                                                       n.user_ids[i] = u)
    IN  [i \in 1..Len(mine) |-> Shown(mine[i])]

(* C7: get_user_notifications(limit, offset) passes limit and offset       *)
(* unchanged as the query parameters of one GET (limit 20 and offset none  *)
(* when omitted) and returns the service's list unsliced: over a service   *)
(* that holds n notifications of the caller in send order, skips offset    *)
(* leading items (0 when absent) and returns at most limit items, the      *)
(* result is the items at positions offset+1 .. min(n, offset+limit).      *)
C7_PaginationPassedThrough ==
    call.op = "get_user_notifications"
    => /\ Len(call.requests) = 1
       /\ call.requests[1].method = "GET"
       /\ call.requests[1].url = BaseUrl
       /\ call.requests[1].params.limit =
             (IF call.args.limit.passed THEN call.args.limit.v ELSE Some(20))
       /\ call.requests[1].params.offset =
             (IF call.args.offset.passed THEN call.args.offset.v ELSE None(0))
       /\ (call.raised = NoError /\ call.requests[1].params.limit.given)
          => LET inbox  == InboxOf(call.gi)
                 n      == Len(inbox)
                 limit  == IF call.args.limit.passed THEN call.args.limit.v.v ELSE 20
                 offset == IF call.args.offset.passed THEN call.args.offset.v.v ELSE 0
             IN  /\ call.value = call.answer.body
                 /\ call.value =
                       [i \in 1..(Min(n, offset + limit) - Min(n, offset)) |->
                           inbox[offset + i]]

\* limit=1, offset=1 over three notifications returns the second
C7_Witness ==
    /\ call.op = "get_user_notifications"
    /\ call.args = [limit |-> Passed(Some(1)), offset |-> Passed(Some(1))]
    /\ call.raised = NoError
    /\ Len(InboxOf(call.gi)) = 3
    /\ call.value = <<InboxOf(call.gi)[2]>>
    /\ InboxOf(call.gi)[2].id = "2"

(* C8: get_notification_status(since=t) called by user u returns as        *)
(* notifications exactly the notifications sent since t that list u among  *)
(* their recipients, in send order, as broadcasts exactly the broadcasts   *)
(* made since t, and as total_unread_count the number of those             *)
(* notifications (broadcasts not counted); with nothing sent or broadcast  *)
(* since t it is 0 with both lists empty. Each accepted send or broadcast  *)
(* is held by the service as it was sent.                                  *)
C8_StatusSince ==
    /\ (call.op = "get_notification_status" /\ call.raised = NoError)
       => LET since == call.args.since
              late  == {i \in 1..Len(notifications) : notifications[i].time >= since}
              mine  == SelectSeq(notifications,
                                 LAMBDA n : n.time >= since
                                            /\ \E i \in 1..Len(n.user_ids) :
                                                  n.user_ids[i] = call.gi)
              cast  == SelectSeq(broadcasts, LAMBDA b : b.time >= since)
          IN  /\ call.value.notifications = [i \in 1..Len(mine) |-> Shown(mine[i])]
              /\ call.value.broadcasts = [i \in 1..Len(cast) |-> Shown(cast[i])]
              /\ call.value.total_unread_count = Len(mine)
              /\ (late = {} /\ cast = <<>>)
                 => call.value = [total_unread_count |-> 0, notifications |-> <<>>,
                                  broadcasts |-> <<>>]
    /\ (Sending /\ call.raised = NoError)
       => LET n == notifications[Len(notifications)]
          IN  /\ n.user_ids = Mirror(call.args.user_ids)
              /\ n.content.message = call.args.message
              /\ n.content.subject = call.args.subject
              /\ n.time = clock
    /\ (Broadcasting /\ call.raised = NoError)
       => LET b == broadcasts[Len(broadcasts)]
          IN  /\ b.content.message = call.args.message
              /\ b.time = clock

\* two notifications and a broadcast made, the first before t: u2 is shown the
\* second notification and the broadcast
C8_Witness ==
    /\ call.op = "get_notification_status"
    /\ call.gi = "u2"
    /\ call.args.since = 2
    /\ call.raised = NoError
    /\ Len(notifications) = 2
    /\ notifications[1].user_ids = <<"u2">>
    /\ notifications[2].user_ids = <<"u1", "u2">>
    /\ notifications[2].time = 2
    /\ Len(broadcasts) = 1
    /\ call.value.total_unread_count = 1
    /\ Len(call.value.notifications) = 1
    /\ call.value.notifications[1].id = "2"
    /\ Len(call.value.broadcasts) = 1

(* C9: in each of the seven operations, when the transport raises an error *)
(* for the request, the operation ends with that same error: one request   *)
(* only (no retry), the error unchanged (no wrapping), no value returned   *)
(* (no suppression).                                                       *)
C9_TransportErrorPassedThrough ==
    (call.op # "idle" /\ call.answer.error \in TransportErrors)
    => /\ call.raised = call.answer.error
       /\ Len(call.requests) = 1
       /\ call.value = Nothing

C9_Witness ==
    /\ call.op = "show_notification"
    /\ call.answer.error = "HTTP 500"
    /\ call.raised = "HTTP 500"
    /\ Len(call.requests) = 1

\* the method and the endpoint listed for each operation
ListedMethod(op) ==
    CASE op = "get_notification_status"         -> "GET"
      [] op = "get_notification_preferences"    -> "GET"
      [] op = "update_notification_preferences" -> "PUT"
      [] op = "get_user_notifications"          -> "GET"
      [] op = "show_notification"               -> "GET"
      [] op = "send_notification"               -> "POST"
      [] op = "broadcast_notification"          -> "POST"

ListedEndpoint(op, a) ==
    CASE op = "get_notification_status"         -> "/status"
      [] op = "get_notification_preferences"    -> "/preferences"
      [] op = "update_notification_preferences" -> "/preferences"
      [] op = "get_user_notifications"          -> "/"
      [] op = "show_notification"               -> "/" \o a.notification_id
      [] op = "send_notification"               -> "/"
      [] op = "broadcast_notification"          -> "/broadcast"

(* C10: every call that passes client-side validation issues exactly one   *)
(* request, with the method and the endpoint listed for its operation, and *)
(* returns exactly the decoded response the transport gave for it.         *)
C10_OneRequestResponseUnchanged ==
    (call.op # "idle" /\ ~InvalidArgument)
    => /\ Len(call.requests) = 1
       /\ call.requests[1].method = ListedMethod(call.op)
       /\ Endpoint(call.requests[1]) = ListedEndpoint(call.op, call.args)
       /\ call.answer.error = NoError
          => (call.raised = NoError /\ call.value = call.answer.body)

C10_Witness ==
    /\ call.op = "get_notification_preferences"
    /\ Len(call.requests) = 1
    /\ call.requests[1].method = "GET"
    /\ call.answer = [error |-> NoError, body |-> "json_b"]
    /\ call.value = "json_b"

\* the stored notifications with this id that list u among their recipients
OwnedWithId(u, id) ==
    {i \in 1..Len(notifications) :
        notifications[i].id = id
        /\ \E k \in 1..Len(notifications[i].user_ids) :
              notifications[i].user_ids[k] = u}

Timed == IF Sending THEN call.requests[1].payload.notification
                    ELSE call.requests[1].payload

\* str() of the datetimes the callers supply
StrOf(d) == CASE d = 1 -> "2023-07-01 00:00:01"
              [] d = 2 -> "2023-07-01 00:00:02"

(* C12: in the payloads of send_notification and broadcast_notification    *)
(* the key expiration_time is present exactly when expiration_time was     *)
(* supplied and publication_time exactly when publication_time was         *)
(* supplied, each independently of the other and each carrying the string  *)
(* form of the supplied timestamp; an omitted timestamp adds no key.       *)
C12_TimestampsOnlyWhenSupplied ==
    (Sending \/ Broadcasting) /\ Len(call.requests) = 1
    => /\ "expiration_time" \in DOMAIN Timed
              <=> call.args.expiration_time.given
       /\ "publication_time" \in DOMAIN Timed
              <=> call.args.publication_time.given
       /\ call.args.expiration_time.given
              => Timed.expiration_time = StrOf(call.args.expiration_time.v)
       /\ call.args.publication_time.given
              => Timed.publication_time = StrOf(call.args.publication_time.v)

C12_Witness ==
    /\ Broadcasting
    /\ Len(call.requests) = 1
    /\ call.args.expiration_time.given
    /\ ~call.args.publication_time.given
    /\ "expiration_time" \in DOMAIN call.requests[1].payload
    /\ "publication_time" \notin DOMAIN call.requests[1].payload

\* what the call of a caller issues and raises when it runs alone
Alone(thread) ==
    IF thread.op = "broadcast_notification"
    THEN broadcast_notification(thread.args, Unanswered)
    ELSE send_notification(thread.args, Unanswered)

\* the outcome of the validation of a call that ran alone
Validation(alone) == IF alone.requests = <<>> THEN alone.raised ELSE NoError

(* C13: the client keeps no state between calls: in every interleaving of  *)
(* the calls of concurrent callers, on one client or on several, the       *)
(* request each call issues and the outcome of its validation are those    *)
(* the call yields when it runs alone with the same arguments.             *)
C13_CallsDoNotInterfere ==
    \A c \in Callers :
        threads[c].pc = "done"
        => /\ threads[c].requests = Alone(threads[c]).requests
           /\ threads[c].raised = Validation(Alone(threads[c]))

C13_Witness ==
    \E c, d \in Callers :
        /\ c # d
        /\ threads[c].pc = "done"
        /\ threads[c].op = "broadcast_notification"
        /\ Len(threads[c].requests) = 1
        /\ TruthyDict(threads[c].args.action_links)
        /\ threads[d].pc = "loop"
        /\ threads[d].self = threads[c].self
        /\ threads[d].args # threads[c].args
        /\ Len(frames[Frame(d, threads[d].self)].links) = 1

====
